---- MODULE Spec2Model ----
(***************************************************************************)
(* Model of items_app.py: generate_pdf (two images per landscape A4 page,  *)
(* drawn through the FPDF cursor API) and the Streamlit script that calls  *)
(* it, writes the document to a temporary file and offers it for download. *)
(* Lengths are whole millimetres.                                          *)
(***************************************************************************)
EXTENDS Integers, Sequences, FiniteSets, TLC

VARIABLES
    mode,        \* "ui": the Streamlit script runs; "direct": generate_pdf is called on its own
    images,      \* the uploaded files / the images argument, in input order
    header_text, \* the header_text argument (the text input's value)
    clicked,     \* value of st.button("Generate PDF") in this script run
    pc,          \* position in the script / in generate_pdf
    pdf,         \* the PDF object: cursor, page counter, font, draw operations
    i,           \* outer loop variable of generate_pdf (0-based, step 2)
    k,           \* 0-based position of img_file inside the current batch
    x_start,     \* saved cursor x of the current row
    y_start,     \* saved cursor y of the current row
    tmp,         \* the open NamedTemporaryFile of the current row (0: none)
    files,       \* temporary files that exist on disk
    made,        \* number of temporary files created so far
    exc,         \* the exception in flight or last caught ("" : none)
    pdf_bytes,   \* bytes read back from the written PDF (NoBytes before)
    ui           \* Streamlit elements rendered by this run, in order

vars == <<mode, images, header_text, clicked, pc, pdf, i, k, x_start, y_start,
          tmp, files, made, exc, pdf_bytes, ui>>

---------------------------------------------------------------------------
(* Bounds of the model *)

MaxImages == 4

(* Layout settings of generate_pdf *)

margin == 10
col_width_img == 80
col_width_other == 190
row_height == 90

(* FPDF page geometry for PDF(orientation='L', unit='mm', format='A4') *)

page_w == 297
page_h == 210
b_margin == 20          \* FPDF's default auto page break margin (2 cm)

PageBreakTrigger == page_h - b_margin

---------------------------------------------------------------------------
(* Inputs *)

\* An uploaded file: its pixel size and the step at which handling it raises.
\* "open": Image.open/convert raises, "save": pil_image.save raises,
\* "embed": pdf.image raises, "none": the image is handled without error.
ImageKinds ==
    { [w |-> 400, h |-> 100, fail |-> "none"],
      [w |-> 100, h |-> 300, fail |-> "none"],
      [w |-> 0,   h |-> 0,   fail |-> "open"],
      [w |-> 200, h |-> 200, fail |-> "save"],
      [w |-> 200, h |-> 200, fail |-> "embed"] }

HeaderTexts == {"pic", ""}

RECURSIVE SeqsUpTo(_, _)
SeqsUpTo(S, n) ==
    IF n = 0 THEN {<<>>}
    ELSE LET shorter == SeqsUpTo(S, n - 1)
         IN shorter \cup {Append(s, e) : s \in {t \in shorter : Len(t) = n - 1}, e \in S}

ErrorText(stage) ==
    CASE stage = "open"  -> "cannot identify image file"
      [] stage = "save"  -> "cannot write image file"
      [] stage = "embed" -> "FPDF error: Unsupported image"
      [] OTHER -> ""

NoBytes == [pages |-> -1, ops |-> <<>>]

---------------------------------------------------------------------------
(* The PDF object (class PDF(FPDF)) *)

NewPDF ==
    [page |-> 0, x |-> margin, y |-> margin, lasth |-> 0, font |-> "",
     closed |-> FALSE, ops |-> <<>>]

Op(page, kind, x, y, w, h, txt, border, font, img) ==
    [page |-> page, kind |-> kind, x |-> x, y |-> y, w |-> w, h |-> h,
     txt |-> txt, border |-> border, font |-> font, img |-> img]

set_font(p, f) == [p EXCEPT !.font = f]

set_xy(p, x, y) == [p EXCEPT !.x = x, !.y = y]

\* FPDF.set_y: a negative y counts from the bottom; x returns to the left margin
set_y(p, y) == [p EXCEPT !.x = margin, !.y = IF y >= 0 THEN y ELSE page_h + y]

\* FPDF.ln(): back to the left margin, down by the height of the last cell
ln(p) == [p EXCEPT !.x = margin, !.y = p.y + p.lasth]

\* FPDF.cell without the page break test: draws at the cursor and moves right
draw_cell(p, w, h, txt, border) ==
    LET cw == IF w = 0 THEN page_w - margin - p.x ELSE w
    IN [p EXCEPT !.ops = Append(p.ops, Op(p.page, "cell", p.x, p.y, cw, h, txt, border, p.font, 0)),
                 !.lasth = h,
                 !.x = p.x + cw]

\* Mutant of footer: the number printed is one less than the page number
footer_OffByOne(p) ==
    draw_cell(set_font(set_y(p, -15), "I8"), 0, 10, "Page " \o ToString(p.page - 1), 0)

\* PDF.footer: runs with in_footer set, so its cell never breaks the page
footer(p) ==
    draw_cell(set_font(set_y(p, -15), "I8"), 0, 10, "Page " \o ToString(p.page), 0)

\* PDF.header: selects the font and draws nothing
header(p) == set_font(p, "B12")

\* FPDF.add_page: footer of the page being left, new page with the cursor at
\* the top-left margin, header(), and the font in use before the call restored
add_page(p) ==
    LET left  == IF p.page > 0 THEN footer(p) ELSE p
        begun == [left EXCEPT !.page = p.page + 1, !.x = margin, !.y = margin, !.font = p.font]
        headed == header(begun)
    IN IF p.font # "" THEN set_font(headed, p.font) ELSE headed

\* FPDF.cell: a cell that would cross the page break trigger first starts a
\* new page (x is kept, y restarts at the top margin)
cell(p, w, h, txt, border) ==
    LET q == IF p.y + h > PageBreakTrigger THEN [add_page(p) EXCEPT !.x = p.x] ELSE p
    IN draw_cell(q, w, h, txt, border)

\* FPDF.rect: no cursor movement, no page break
rect(p, x, y, w, h) ==
    [p EXCEPT !.ops = Append(p.ops, Op(p.page, "rect", x, y, w, h, "", 1, p.font, 0))]

\* FPDF.image with explicit x, y, w, h: no cursor movement, no page break
image(p, img, x, y, w, h) ==
    [p EXCEPT !.ops = Append(p.ops, Op(p.page, "image", x, y, w, h, "", 0, p.font, img))]

\* FPDF.close (called by output): an empty document gets one page, the last
\* page gets its footer
close(p) ==
    LET q == IF p.page = 0 THEN add_page(p) ELSE p
    IN [footer(q) EXCEPT !.closed = TRUE]

---------------------------------------------------------------------------
(* Initial states: one request with its inputs *)

Init ==
    /\ mode \in {"ui", "direct"}
    /\ images \in SeqsUpTo(ImageKinds, MaxImages)
    /\ header_text \in HeaderTexts
    /\ clicked \in BOOLEAN
    /\ mode = "direct" => ~clicked
    /\ pc = "start"
    /\ pdf = NewPDF
    /\ i = 0
    /\ k = 0
    /\ x_start = 0
    /\ y_start = 0
    /\ tmp = 0
    /\ files = {}
    /\ made = 0
    /\ exc = ""
    /\ pdf_bytes = NoBytes
    /\ ui = <<>>

Widget(kind, text) == [kind |-> kind, text |-> text]

\* The current batch images[i:i+2], as the 1-based index range it covers
BatchLen == IF i + 2 <= Len(images) THEN 2 ELSE Len(images) - i

CurIndex == i + k + 1          \* 1-based input index of img_file

---------------------------------------------------------------------------
(* The Streamlit script *)

\* Mutant of ShowUploads: the emptiness test on uploaded_files is missing
ShowUploads_NoEmptyCheck ==
    /\ mode = "ui"
    /\ pc = "start"
    /\ ui' = Append(ui, Widget("success", "Uploaded " \o ToString(Len(images)) \o " images."))
    /\ pc' = "button"
    /\ UNCHANGED <<mode, images, header_text, clicked, pdf, i, k, x_start, y_start,
                   tmp, files, made, exc, pdf_bytes>>

\* if uploaded_files: st.success(...) else: st.info(...)
ShowUploads ==
    /\ mode = "ui"
    /\ pc = "start"
    /\ IF Len(images) > 0
       THEN /\ ui' = Append(ui, Widget("success", "Uploaded " \o ToString(Len(images)) \o " images."))
            /\ pc' = "button"
       ELSE /\ ui' = Append(ui, Widget("info", "Please upload images to start."))
            /\ pc' = "done"
    /\ UNCHANGED <<mode, images, header_text, clicked, pdf, i, k, x_start, y_start,
                   tmp, files, made, exc, pdf_bytes>>

\* if st.button("Generate PDF"): try: pdf = generate_pdf(...)
PressButton ==
    /\ pc = "button"
    /\ pc' = IF clicked THEN "loop" ELSE "done"
    /\ pdf' = IF clicked THEN NewPDF ELSE pdf
    /\ i' = 0
    /\ UNCHANGED <<mode, images, header_text, clicked, k, x_start, y_start,
                   tmp, files, made, exc, pdf_bytes, ui>>

\* generate_pdf called on its own with any list, the empty one included
CallGeneratePdf ==
    /\ mode = "direct"
    /\ pc = "start"
    /\ pc' = "loop"
    /\ pdf' = NewPDF
    /\ i' = 0
    /\ UNCHANGED <<mode, images, header_text, clicked, k, x_start, y_start,
                   tmp, files, made, exc, pdf_bytes, ui>>

---------------------------------------------------------------------------
(* generate_pdf *)

\* for i in range(0, len(images), 2): add_page, the two header cells, ln()
BeginPage ==
    /\ pc = "loop"
    /\ i < Len(images)
    /\ pdf' = ln(cell(cell(set_font(add_page(pdf), "B12"),
                           col_width_img, 10, header_text, 1),
                      col_width_other, 10, "Notes / Data", 1))
    /\ k' = 0
    /\ pc' = "row"
    /\ UNCHANGED <<mode, images, header_text, clicked, i, x_start, y_start,
                   tmp, files, made, exc, pdf_bytes, ui>>

\* for img_file in batch: save the cursor, draw the border, create the temp file
BeginRow ==
    /\ pc = "row"
    /\ k < BatchLen
    /\ x_start' = pdf.x
    /\ y_start' = pdf.y
    /\ pdf' = rect(pdf, pdf.x, pdf.y, col_width_img, row_height)
    /\ made' = made + 1
    /\ tmp' = made + 1
    /\ files' = files \cup {made + 1}
    /\ pc' = "convert"
    /\ UNCHANGED <<mode, images, header_text, clicked, i, k, exc, pdf_bytes, ui>>

\* pil_image = Image.open(img_file).convert('RGB'); pil_image.save(tmp.name)
ConvertImage ==
    /\ pc = "convert"
    /\ images[CurIndex].fail \notin {"open", "save"}
    /\ pc' = "embed"
    /\ UNCHANGED <<mode, images, header_text, clicked, pdf, i, k, x_start, y_start,
                   tmp, files, made, exc, pdf_bytes, ui>>

\* Mutant of EmbedImage: the height follows the image's aspect ratio
EmbedImage_AspectFit ==
    /\ pc = "embed"
    /\ images[CurIndex].fail # "embed"
    /\ pdf' = image(pdf, CurIndex, x_start + 2, y_start + 2, col_width_img - 4,
                    ((col_width_img - 4) * images[CurIndex].h) \div images[CurIndex].w)
    /\ pc' = "cleanup"
    /\ UNCHANGED <<mode, images, header_text, clicked, i, k, x_start, y_start,
                   tmp, files, made, exc, pdf_bytes, ui>>

\* pdf.image(tmp.name, x=x_start+2, y=y_start+2, w=col_width_img-4, h=row_height-4)
EmbedImage ==
    /\ pc = "embed"
    /\ images[CurIndex].fail # "embed"
    /\ pdf' = image(pdf, CurIndex, x_start + 2, y_start + 2,
                    col_width_img - 4, row_height - 4)
    /\ pc' = "cleanup"
    /\ UNCHANGED <<mode, images, header_text, clicked, i, k, x_start, y_start,
                   tmp, files, made, exc, pdf_bytes, ui>>

\* Mutant of ImageRaises: the failing image is skipped and the loop goes on
ImageRaises_SkipAndContinue ==
    /\ \/ pc = "convert" /\ images[CurIndex].fail \in {"open", "save"}
       \/ pc = "embed" /\ images[CurIndex].fail = "embed"
    /\ pc' = "cleanup"
    /\ UNCHANGED <<mode, images, header_text, clicked, pdf, i, k, x_start, y_start,
                   tmp, files, made, exc, pdf_bytes, ui>>

\* An exception inside the with block: the file is closed, not deleted
\* (delete=False), and the exception leaves generate_pdf
ImageRaises ==
    /\ \/ pc = "convert" /\ images[CurIndex].fail \in {"open", "save"}
       \/ pc = "embed" /\ images[CurIndex].fail = "embed"
    /\ exc' = ErrorText(images[CurIndex].fail)
    /\ tmp' = 0
    /\ pc' = IF mode = "ui" THEN "except" ELSE "raised"
    /\ UNCHANGED <<mode, images, header_text, clicked, pdf, i, k, x_start, y_start,
                   files, made, pdf_bytes, ui>>

\* Mutant of FinishRow: the cursor is not moved to the start of the next row
FinishRow_KeepCursor ==
    /\ pc = "cleanup"
    /\ files' = files \ {tmp}
    /\ tmp' = 0
    /\ pdf' = cell(set_xy(pdf, x_start + col_width_img, y_start),
                   col_width_other, row_height, "", 1)
    /\ k' = k + 1
    /\ pc' = "row"
    /\ UNCHANGED <<mode, images, header_text, clicked, i, x_start, y_start,
                   made, exc, pdf_bytes, ui>>

\* os.remove(tmp_path); the data cell; the cursor moved to the next row
FinishRow ==
    /\ pc = "cleanup"
    /\ files' = files \ {tmp}
    /\ tmp' = 0
    /\ pdf' = set_xy(cell(set_xy(pdf, x_start + col_width_img, y_start),
                          col_width_other, row_height, "", 1),
                     x_start, y_start + row_height)
    /\ k' = k + 1
    /\ pc' = "row"
    /\ UNCHANGED <<mode, images, header_text, clicked, i, x_start, y_start,
                   made, exc, pdf_bytes, ui>>

\* the batch is exhausted: next value of i
NextBatch ==
    /\ pc = "row"
    /\ k >= BatchLen
    /\ i' = i + 2
    /\ pc' = "loop"
    /\ UNCHANGED <<mode, images, header_text, clicked, pdf, k, x_start, y_start,
                   tmp, files, made, exc, pdf_bytes, ui>>

\* return pdf
ReturnPdf ==
    /\ pc = "loop"
    /\ i >= Len(images)
    /\ pc' = IF mode = "ui" THEN "output" ELSE "returned"
    /\ UNCHANGED <<mode, images, header_text, clicked, pdf, i, k, x_start, y_start,
                   tmp, files, made, exc, pdf_bytes, ui>>

---------------------------------------------------------------------------
(* The Streamlit script, after generate_pdf *)

\* with NamedTemporaryFile(delete=False, suffix=".pdf"): pdf.output(...); f.read()
OutputPdf ==
    /\ pc = "output"
    /\ made' = made + 1
    /\ files' = files \cup {made + 1}
    /\ pdf' = close(pdf)
    /\ pdf_bytes' = [pages |-> close(pdf).page, ops |-> close(pdf).ops]
    /\ pc' = "download"
    /\ UNCHANGED <<mode, images, header_text, clicked, i, k, x_start, y_start,
                   tmp, exc, ui>>

\* st.download_button(...)
DownloadButton ==
    /\ pc = "download"
    /\ ui' = Append(ui, Widget("download_button", "landscape_photos.pdf"))
    /\ pc' = "done"
    /\ UNCHANGED <<mode, images, header_text, clicked, pdf, i, k, x_start, y_start,
                   tmp, files, made, exc, pdf_bytes>>

\* except Exception as e: st.error(f"An error occurred: {e}")
ShowError ==
    /\ pc = "except"
    /\ ui' = Append(ui, Widget("error", "An error occurred: " \o exc))
    /\ pc' = "done"
    /\ UNCHANGED <<mode, images, header_text, clicked, pdf, i, k, x_start, y_start,
                   tmp, files, made, exc, pdf_bytes>>

Next ==
    \/ ShowUploads
    \/ PressButton
    \/ CallGeneratePdf
    \/ BeginPage
    \/ BeginRow
    \/ ConvertImage
    \/ EmbedImage
    \/ ImageRaises
    \/ FinishRow
    \/ NextBatch
    \/ ReturnPdf
    \/ OutputPdf
    \/ DownloadButton
    \/ ShowError

Spec == Init /\ [][Next]_vars

---------------------------------------------------------------------------
(* Reading the document back: the draw operations by role *)

Ops == pdf.ops

Idx(P(_)) == {j \in 1..Len(Ops) : P(Ops[j])}

IsRect(o)   == o.kind = "rect"
IsImage(o)  == o.kind = "image"
IsData(o)   == o.kind = "cell" /\ o.border = 1 /\ o.w = col_width_other /\ o.h = row_height
IsLabel(o)  == o.kind = "cell" /\ o.border = 1 /\ o.w = col_width_img /\ o.h = 10
IsNotes(o)  == o.kind = "cell" /\ o.border = 1 /\ o.w = col_width_other /\ o.h = 10
                  /\ o.txt = "Notes / Data"
IsFooter(o) == o.kind = "cell" /\ o.border = 0 /\ o.font = "I8"

Rects  == SelectSeq(Ops, IsRect)
Placed == SelectSeq(Ops, IsImage)

OnPage(S, n) == {j \in S : Ops[j].page = n}

CeilHalf(n) == (n + 1) \div 2

AllDecode == \A j \in 1..Len(images) : images[j].fail = "none"

\* generate_pdf has returned its document and output() has not touched it yet
Returned == pc \in {"returned", "output"}

\* the script run (or the direct call) is over
Finished == pc \in {"done", "returned", "raised"}

Widgets(kind) == {j \in 1..Len(ui) : ui[j].kind = kind}

\* 1-based index of the first image whose handling raises (0: none)
FirstBad ==
    IF AllDecode THEN 0
    ELSE CHOOSE j \in 1..Len(images) :
            /\ images[j].fail # "none"
            /\ \A m \in 1..(j - 1) : images[m].fail = "none"

---------------------------------------------------------------------------
(* C1: for N images that all decode, the document returned by generate_pdf *)
(* has exactly ceil(N/2) pages.                                            *)
C1_CeilHalfPages ==
    (Returned /\ AllDecode) => pdf.page = CeilHalf(Len(images))

(* C2: on every page, every image row has exactly one border rect and      *)
(* exactly one data cell on that page with the same top y and height 90;   *)
(* a page holds at most 2 image rows; the header row appears exactly once  *)
(* per page, at the first row position.                                    *)
C2_RowsAndHeaderPerPage ==
    Returned =>
        \A n \in 1..pdf.page :
            /\ Cardinality(OnPage(Idx(IsRect), n)) <= 2
            /\ \A r \in OnPage(Idx(IsRect), n) :
                   /\ Cardinality({q \in OnPage(Idx(IsRect), n) : Ops[q].y = Ops[r].y}) = 1
                   /\ Cardinality({d \in OnPage(Idx(IsData), n) :
                                      Ops[d].y = Ops[r].y /\ Ops[d].h = Ops[r].h}) = 1
            /\ \A d \in OnPage(Idx(IsData), n) :
                   \E r \in OnPage(Idx(IsRect), n) : Ops[r].y = Ops[d].y
            /\ Cardinality(OnPage(Idx(IsLabel), n)) = 1
            /\ \A j \in OnPage(Idx(IsLabel), n) : Ops[j].y = margin

(* C3: every page of the document carries a header row: a first cell with  *)
(* header_text verbatim, followed by the "Notes / Data" cell.              *)
C3_HeaderOnEveryPage ==
    Returned =>
        \A n \in 1..pdf.page :
            \E j \in 1..(Len(Ops) - 1) :
                /\ IsLabel(Ops[j]) /\ Ops[j].page = n /\ Ops[j].txt = header_text
                /\ IsNotes(Ops[j + 1]) /\ Ops[j + 1].page = n

(* C4: the image at 0-based index i is placed on page floor(i/2)+1 as row  *)
(* i mod 2, every image exactly once and in input order; every page but    *)
(* the last holds 2 image rows, the last holds 1 when K is odd.            *)
C4_ConsecutivePairs ==
    (Returned /\ AllDecode) =>
        /\ Len(Placed) = Len(images)
        /\ \A j \in 1..Len(Placed) :
               /\ Placed[j].img = j
               /\ Placed[j].page = ((j - 1) \div 2) + 1
               /\ Placed[j].y = margin + 10 + ((j - 1) % 2) * row_height + 2
        /\ \A n \in 1..pdf.page :
               /\ n < pdf.page => Cardinality(OnPage(Idx(IsImage), n)) = 2
               /\ (n = pdf.page /\ Len(images) % 2 = 1) =>
                      Cardinality(OnPage(Idx(IsImage), n)) = 1

(* C5: when the request finishes, on success and on failure, no temporary  *)
(* file the request created still exists.                                  *)
C5_NoTempFileLeft ==
    Finished => files = {}

(* C6: if any image fails to decode, save or embed, the request aborts: no *)
(* document bytes, no download button, exactly one error message carrying  *)
(* the underlying error, and no image after the failing one is handled.    *)
C6_FailureAbortsRequest ==
    (mode = "ui" /\ clicked /\ ~AllDecode /\ pc = "done") =>
        /\ pdf_bytes = NoBytes
        /\ Widgets("download_button") = {}
        /\ Cardinality(Widgets("error")) = 1
        /\ \A j \in Widgets("error") :
               ui[j].text = "An error occurred: " \o ErrorText(images[FirstBad].fail)
        /\ made = FirstBad
        /\ Len(Placed) < FirstBad

C6_Witness ==
    /\ mode = "ui" /\ pc = "done" /\ FirstBad = 3
    /\ Len(Placed) = 2
    /\ Widgets("error") # {}

(* C7: with zero images generate_pdf adds no page and raises nothing, and  *)
(* the script never runs the pipeline nor offers a download: it only shows *)
(* that images are required.                                               *)
C7_EmptyInput ==
    Len(images) = 0 =>
        /\ pdf.page = 0 /\ Ops = <<>> /\ exc = ""
        /\ pdf_bytes = NoBytes /\ made = 0
        /\ Widgets("download_button") = {} /\ Widgets("error") = {}
        /\ mode = "direct" => pc \in {"start", "loop", "returned"}
        /\ mode = "ui" => pc \in {"start", "done"}
        /\ (mode = "ui" /\ pc = "done") =>
               ui = <<Widget("info", "Please upload images to start.")>>

C7_Witness ==
    /\ Len(images) = 0 /\ mode = "direct" /\ pc = "returned" /\ pdf.page = 0

C7_WitnessUi ==
    /\ Len(images) = 0 /\ mode = "ui" /\ pc = "done" /\ Len(ui) = 1

(* C8: the border rect of row 0 is at x = 10, y = 20 and that of row 1 at  *)
(* x = 10, y = 110 on the same page as row 0, on every page and for every  *)
(* image.                                                                  *)
C8_RowPlacement ==
    \A j \in 1..Len(Rects) :
        /\ Rects[j].x = margin
        /\ Rects[j].w = col_width_img /\ Rects[j].h = row_height
        /\ (j % 2 = 1) => Rects[j].y = margin + 10
        /\ (j % 2 = 0) => /\ Rects[j].y = margin + 10 + row_height
                          /\ Rects[j].y = Rects[j - 1].y + row_height
                          /\ Rects[j].page = Rects[j - 1].page

C8_Witness ==
    /\ Len(Rects) = 4
    /\ Rects[4].y = 110 /\ Rects[4].page > 2 /\ Rects[3].y = 20
    /\ images[3] # images[4]

(* C9: once the document is written, every page carries exactly one footer *)
(* "Page N" with N its 1-based position; while the document is built every *)
(* page already left carries it.                                           *)
C9_FooterNumbers ==
    \A n \in 1..pdf.page :
        LET f == OnPage(Idx(IsFooter), n)
        IN /\ (n < pdf.page \/ pdf.closed) =>
                  /\ Cardinality(f) = 1
                  /\ \A j \in f : Ops[j].txt = "Page " \o ToString(n) /\ Ops[j].y = page_h - 15
           /\ (n = pdf.page /\ ~pdf.closed) => f = {}

C9_Witness ==
    /\ pdf.closed /\ pdf.page >= 3
    /\ pdf_bytes.pages = pdf.page
    /\ Cardinality(Idx(IsFooter)) = pdf.page

(* C10: every image is drawn at (x_start+2, y_start+2) with width 76 and   *)
(* height 86 whatever its own size, strictly inside the 80x90 border rect  *)
(* of its row and on the same page.                                        *)
C10_ImageFillsInsetBox ==
    /\ Len(Placed) <= Len(Rects)
    /\ \A j \in 1..Len(Placed) :
           LET o == Placed[j]
               r == Rects[j]
           IN /\ o.img = j
              /\ o.page = r.page
              /\ o.x = r.x + 2 /\ o.y = r.y + 2
              /\ o.w = 76 /\ o.h = 86
              /\ r.w = 80 /\ r.h = 90
              /\ r.x < o.x /\ o.x + o.w < r.x + r.w
              /\ r.y < o.y /\ o.y + o.h < r.y + r.h
              /\ o.x + o.w = r.x + r.w - 2 /\ o.y + o.h = r.y + r.h - 2

C10_Witness ==
    /\ Len(Placed) >= 2
    /\ images[Placed[1].img].w > images[Placed[1].img].h
    /\ images[Placed[2].img].w < images[Placed[2].img].h
    /\ Placed[2].y = 112

====
